---- MODULE Spec2Model ----
(***************************************************************************)
(* Model of the permit-node / authorizon SDK:                              *)
(*   - the API-context guards of BasePermitApi (src/src/api/base.ts),      *)
(*   - the AuthorizonSDK.init factory (src/src/index.ts),                  *)
(*   - the MutationsClient write api (src/src/mutations/client.ts).        *)
(* ApiContext (api/context.ts), the decision cache, the enforcer and the   *)
(* instrumentation plugin are not part of the sources at hand; they are    *)
(* modelled from the specification text.                                   *)
(***************************************************************************)
EXTENDS Integers, Sequences, FiniteSets, TLC

\* ------------------------------------------------------------------ bounds
NumCallers == 2
MaxCalls == 3

Callers == 1..NumCallers

\* ------------------------------------------------- ApiContext enumerations
\* ApiContextLevel is a numeric enum, compared with < in ensureContext.
WAIT_FOR_INIT == 0
ORGANIZATION == 1
PROJECT == 2
ENVIRONMENT == 3

\* ApiKeyLevel is a string enum.
KEY_WAIT_FOR_INIT == "WAIT_FOR_INIT"
KEY_ORGANIZATION == "ORGANIZATION"
KEY_PROJECT == "PROJECT"
KEY_ENVIRONMENT == "ENVIRONMENT"

API_ACCESS_LEVELS == <<KEY_ORGANIZATION, KEY_PROJECT, KEY_ENVIRONMENT>>

ContextLevels == {ORGANIZATION, PROJECT, ENVIRONMENT}
KeyLevels == {KEY_ORGANIZATION, KEY_PROJECT, KEY_ENVIRONMENT}

\* Array.prototype.indexOf: 0-based position of the first match, -1 if none.
IndexOf(arr, x) ==
  IF \E i \in 1..Len(arr) : arr[i] = x
  THEN (CHOOSE i \in 1..Len(arr) : arr[i] = x /\ \A j \in 1..(i - 1) : arr[j] # x) - 1
  ELSE -1

\* The body of a getApiKeyScope response: which ids are present.
ScopeResponses == [organization_id : BOOLEAN, project_id : BOOLEAN, environment_id : BOOLEAN]

VARIABLES
  contextLevel,          \* config.apiContext.contextLevel
  permittedAccessLevel,  \* config.apiContext.permittedAccessLevel
  apiKeyScope,           \* what the remote answers for the configured key
  pc,                    \* per caller: "idle" or "awaitScope"
  pending,               \* per caller: the guard call suspended at the await
  ret,                   \* the latest guard completion
  calls,                 \* guard calls started
  scopeCalls,            \* getApiKeyScope requests issued
  scopeSuccess,          \* getApiKeyScope requests that resolved the scope
  contextWrites,         \* writes to contextLevel
  lookupsAfterSuccess    \* requests issued once a lookup had succeeded

ctxVars == <<contextLevel, permittedAccessLevel, apiKeyScope, pc, pending, ret,
             calls, scopeCalls, scopeSuccess, contextWrites, lookupsAfterSuccess>>

NoCall == [guard |-> "none", required |-> 0]
NoRet == [caller |-> 0, guard |-> "none", required |-> 0, result |-> "none",
          lookup |-> "none", contextLevel |-> WAIT_FOR_INIT,
          permittedAccessLevel |-> KEY_WAIT_FOR_INIT]

\* ---------------------------------------------------------------- helpers
\* base.ts 112-115 / 139-142: the lazy-resolution condition of both guards.
NeedsInitAlways(ctx, permitted) == TRUE

NeedsInitNever(ctx, permitted) == FALSE

NeedsInit(ctx, permitted) ==
  ctx = WAIT_FOR_INIT \/ permitted = KEY_WAIT_FOR_INIT

\* base.ts 119-129: TRUE when ensureAccessLevel throws.
AccessLevelThrowsReversed(required, permitted) ==
  /\ required # permitted
  /\ IndexOf(API_ACCESS_LEVELS, required) > IndexOf(API_ACCESS_LEVELS, permitted)

AccessLevelThrows(required, permitted) ==
  /\ required # permitted
  /\ IndexOf(API_ACCESS_LEVELS, required) < IndexOf(API_ACCESS_LEVELS, permitted)

\* base.ts 146-156: TRUE when ensureContext throws.
ContextThrows(required, ctx) ==
  ctx < required \/ ctx = WAIT_FOR_INIT

\* base.ts 55-89: the context level chosen from the ids of the response
\* (WAIT_FOR_INIT stands for "throws, nothing set").
ScopeContextLevelEnvFirst(data) ==
  IF data.organization_id
  THEN IF data.environment_id THEN ENVIRONMENT
       ELSE IF data.project_id THEN PROJECT
       ELSE ORGANIZATION
  ELSE WAIT_FOR_INIT

ScopeContextLevel(data) ==
  IF data.organization_id
  THEN IF data.project_id
       THEN IF data.environment_id THEN ENVIRONMENT ELSE PROJECT
       ELSE ORGANIZATION
  ELSE WAIT_FOR_INIT

\* ApiContext._saveApiKeyAccessibleScope: the permitted level of the key.
SaveApiKeyAccessibleScope(data) ==
  IF data.project_id /\ data.environment_id THEN KEY_ENVIRONMENT
  ELSE IF data.project_id THEN KEY_PROJECT
  ELSE KEY_ORGANIZATION

\* The outcome of the guard's final check.
GuardResult(call, ctx, permitted) ==
  IF call.guard = "access"
  THEN IF AccessLevelThrows(call.required, permitted) THEN "ContextError" ELSE "ok"
  ELSE IF ContextThrows(call.required, ctx) THEN "ContextError" ELSE "ok"

Completion(p, call, result, lookup, ctx, permitted) ==
  [caller |-> p, guard |-> call.guard, required |-> call.required, result |-> result,
   lookup |-> lookup, contextLevel |-> ctx, permittedAccessLevel |-> permitted]

\* ------------------------------------------------------------------- Init
CtxInit ==
  /\ contextLevel = WAIT_FOR_INIT
  /\ permittedAccessLevel = KEY_WAIT_FOR_INIT
  /\ apiKeyScope \in ScopeResponses
  /\ pc = [p \in Callers |-> "idle"]
  /\ pending = [p \in Callers |-> NoCall]
  /\ ret = NoRet
  /\ calls = 0
  /\ scopeCalls = 0
  /\ scopeSuccess = 0
  /\ contextWrites = 0
  /\ lookupsAfterSuccess = 0

\* ---------------------------------------------------------------- actions
\* A guard call up to its first suspension point: either it awaits
\* setContextFromApiKey (one getApiKeyScope request) or it runs to its end.
StartGuard(p, call) ==
  /\ pc[p] = "idle"
  /\ calls < MaxCalls
  /\ calls' = calls + 1
  /\ IF NeedsInit(contextLevel, permittedAccessLevel)
     THEN /\ pc' = [pc EXCEPT ![p] = "awaitScope"]
          /\ pending' = [pending EXCEPT ![p] = call]
          /\ scopeCalls' = scopeCalls + 1
          /\ lookupsAfterSuccess' =
               IF scopeSuccess > 0 THEN lookupsAfterSuccess + 1 ELSE lookupsAfterSuccess
          /\ UNCHANGED ret
     ELSE /\ ret' = Completion(p, call,
                       GuardResult(call, contextLevel, permittedAccessLevel),
                       "none", contextLevel, permittedAccessLevel)
          /\ UNCHANGED <<pc, pending, scopeCalls, lookupsAfterSuccess>>
  /\ UNCHANGED <<contextLevel, permittedAccessLevel, apiKeyScope, scopeSuccess, contextWrites>>

ensureAccessLevel(p) ==
  \E required \in KeyLevels : StartGuard(p, [guard |-> "access", required |-> required])

ensureContext(p) ==
  \E required \in ContextLevels : StartGuard(p, [guard |-> "context", required |-> required])

\* getApiKeyScope answers with the key's scope: setContextFromApiKey stores it
\* (or throws when organization_id is missing) and the guard runs its check.
ScopeLookupReturns(p) ==
  /\ pc[p] = "awaitScope"
  /\ pc' = [pc EXCEPT ![p] = "idle"]
  /\ pending' = [pending EXCEPT ![p] = NoCall]
  /\ IF ScopeContextLevel(apiKeyScope) # WAIT_FOR_INIT
     THEN /\ permittedAccessLevel' = SaveApiKeyAccessibleScope(apiKeyScope)
          /\ contextLevel' = ScopeContextLevel(apiKeyScope)
          /\ contextWrites' = contextWrites + 1
          /\ scopeSuccess' = scopeSuccess + 1
          /\ ret' = Completion(p, pending[p],
                       GuardResult(pending[p], contextLevel', permittedAccessLevel'),
                       "ok", contextLevel', permittedAccessLevel')
     ELSE /\ ret' = Completion(p, pending[p], "ContextError", "failed",
                       contextLevel, permittedAccessLevel)
          /\ UNCHANGED <<contextLevel, permittedAccessLevel, contextWrites, scopeSuccess>>
  /\ UNCHANGED <<apiKeyScope, calls, scopeCalls, lookupsAfterSuccess>>

\* A failed lookup that caches a partial resolution.
ScopeLookupRejectsCaching(p) ==
  /\ pc[p] = "awaitScope"
  /\ pc' = [pc EXCEPT ![p] = "idle"]
  /\ pending' = [pending EXCEPT ![p] = NoCall]
  /\ ret' = Completion(p, pending[p], "ContextError", "failed",
                       contextLevel, permittedAccessLevel)
  /\ permittedAccessLevel' = KEY_ORGANIZATION
  /\ UNCHANGED <<contextLevel, apiKeyScope, calls, scopeCalls,
                 scopeSuccess, contextWrites, lookupsAfterSuccess>>

\* getApiKeyScope rejects (network or auth error): the catch block rethrows
\* a PermitContextError and nothing is stored.
ScopeLookupRejects(p) ==
  /\ pc[p] = "awaitScope"
  /\ pc' = [pc EXCEPT ![p] = "idle"]
  /\ pending' = [pending EXCEPT ![p] = NoCall]
  /\ ret' = Completion(p, pending[p], "ContextError", "failed",
                       contextLevel, permittedAccessLevel)
  /\ UNCHANGED <<contextLevel, permittedAccessLevel, apiKeyScope, calls, scopeCalls,
                 scopeSuccess, contextWrites, lookupsAfterSuccess>>

\* =========================================================== AuthorizonSDK
MaxClients == 2
MaxListeners == 2
MaxHookCalls == 3

Clients == 1..MaxClients

VARIABLES
  created,         \* clients that AuthorizonSDK.init has returned
  listeners,       \* per client: the listeners on its private EventEmitter
  registered,      \* per client: listeners ever registered through on/once
  listenerCalls,   \* per client: listener invocations
  readyEmits,      \* per client: events.emit('ready') calls
  hookCalls,       \* calls of hook(appManager)
  interceptLayers, \* interception layers sitting on the http/https functions
  lastRequest,     \* the latest http request of the host application
  components,      \* per client: the objects init() built for it
  nextObject       \* objects allocated so far

sdkVars == <<created, listeners, registered, listenerCalls, readyEmits,
             hookCalls, interceptLayers, lastRequest, components, nextObject>>

\* The objects AuthorizonSDK.init constructs with new, in construction order.
ComponentNames == <<"events", "resourceRegistry", "resourceReporter", "enforcer",
                    "cache", "mutationsClient", "appManager">>

NoComponents == [i \in 1..Len(ComponentNames) |-> -1]

\* Every new X(...) of init yields a fresh object.
NewComponentsSharedCache(allocated) ==
  [i \in 1..Len(ComponentNames) |->
     IF ComponentNames[i] = "cache" THEN 0 ELSE allocated + i]

NewComponents(allocated) == [i \in 1..Len(ComponentNames) |-> allocated + i]

NoRequest == [installs |-> 0, intercepts |-> 0, seen |-> FALSE]

SdkInit ==
  /\ created = {}
  /\ listeners = [c \in Clients |-> <<>>]
  /\ registered = [c \in Clients |-> 0]
  /\ listenerCalls = [c \in Clients |-> 0]
  /\ readyEmits = [c \in Clients |-> 0]
  /\ hookCalls = 0
  /\ interceptLayers = 0
  /\ lastRequest = NoRequest
  /\ components = [c \in Clients |-> NoComponents]
  /\ nextObject = 0

\* EventEmitter.emit: every listener registered at that moment is invoked once;
\* the "once" listeners are removed.
RemainingAfterEmit(ls) == SelectSeq(ls, LAMBDA kind : kind = "on")

\* instrument/plugin hook(appManager): installs the interception layer over the
\* http/https functions; installing again adds no second layer.
hookStacking(layers) == layers + 1

hook(layers) == IF layers = 0 THEN 1 ELSE layers

\* AuthorizonSDK.init(config): builds the components, hooks http when auto
\* mapping is enabled, emits 'ready' on the new emitter and returns the client.
init(c) ==
  /\ c \notin created
  /\ \E autoMapping \in BOOLEAN :
       IF autoMapping
       THEN /\ hookCalls < MaxHookCalls
            /\ hookCalls' = hookCalls + 1
            /\ interceptLayers' = hook(interceptLayers)
       ELSE UNCHANGED <<hookCalls, interceptLayers>>
  /\ readyEmits' = [readyEmits EXCEPT ![c] = @ + 1]
  /\ listenerCalls' = [listenerCalls EXCEPT ![c] = @ + Len(listeners[c])]
  /\ listeners' = [listeners EXCEPT ![c] = RemainingAfterEmit(@)]
  /\ created' = created \cup {c}
  /\ components' = [components EXCEPT ![c] = NewComponents(nextObject)]
  /\ nextObject' = nextObject + Len(ComponentNames)
  /\ UNCHANGED <<registered, lastRequest>>

\* client.on('ready', listener) / client.once('ready', listener).
Register(c, kind) ==
  /\ c \in created
  /\ Len(listeners[c]) < MaxListeners
  /\ listeners' = [listeners EXCEPT ![c] = Append(@, kind)]
  /\ registered' = [registered EXCEPT ![c] = @ + 1]
  /\ UNCHANGED <<created, listenerCalls, readyEmits, hookCalls, interceptLayers, lastRequest,
                 components, nextObject>>

on(c) == Register(c, "on")

once(c) == Register(c, "once")

\* client.instrument(): () => { hook(appManager); }
instrument(c) ==
  /\ c \in created
  /\ hookCalls < MaxHookCalls
  /\ hookCalls' = hookCalls + 1
  /\ interceptLayers' = hook(interceptLayers)
  /\ UNCHANGED <<created, listeners, registered, listenerCalls, readyEmits, lastRequest,
                 components, nextObject>>

\* The host application makes an http request: every installed layer sees it.
HttpRequest ==
  /\ lastRequest' = [installs |-> hookCalls, intercepts |-> interceptLayers, seen |-> TRUE]
  /\ UNCHANGED <<created, listeners, registered, listenerCalls, readyEmits,
                 hookCalls, interceptLayers, components, nextObject>>

\* ===================================== MutationsClient, enforcer and cache
MaxWrites == 2
MaxReads == 2

Users == {"u1", "u2"}
Tenants == {"t1"}
Keys == Users \X Tenants

\* The errors the axios client rejects with.
HttpErrors == {"timeout", "status500"}

VARIABLES
  decisionCache,  \* the client's decision cache: key -> "none" | "allow" | "deny"
  staleKeys,      \* cached keys whose entry predates a successful write on them
  remoteRoles,    \* role assignments held by the remote service
  httpWrites,     \* requests issued by the write api
  lastWrite,      \* the latest write operation and its outcome
  lastCheck,      \* the latest decision returned by the enforcer
  httpReads,      \* requests issued by the read api
  lastRead,       \* the latest read operation and its outcome
  lastProxy       \* the latest read(callback) / save(callback) call

cloudVars == <<decisionCache, staleKeys, remoteRoles, httpWrites, lastWrite, lastCheck>>

proxyVars == <<httpReads, lastRead, lastProxy>>

NoWrite == [op |-> "none", outcome |-> "none", affected |-> {}, requests |-> 0,
            rejected |-> "none", thrown |-> "none", logged |-> FALSE]
NoCheck == [key |-> <<>>, decision |-> "none", hit |-> FALSE, stale |-> FALSE]
NoRead == [op |-> "none", outcome |-> "none", requests |-> 0,
           rejected |-> "none", thrown |-> "none", logged |-> FALSE]
NoProxy == [via |-> "none", op |-> "none", callback |-> "none", returned |-> "none",
            reads |-> 0, writes |-> 0]

CloudInit ==
  /\ decisionCache = [k \in Keys |-> "none"]
  /\ staleKeys = {}
  /\ remoteRoles = {}
  /\ httpWrites = 0
  /\ lastWrite = NoWrite
  /\ lastCheck = NoCheck
  /\ httpReads = 0
  /\ lastRead = NoRead
  /\ lastProxy = NoProxy

KeysOfUser(u) == {k \in Keys : k[1] = u}
KeysOfTenant(t) == {k \in Keys : k[2] = t}

\* Enforcer.check over the decision cache: a hit is returned as cached, a miss
\* asks the remote decision endpoint and stores the answer.
check(k) ==
  /\ IF decisionCache[k] # "none"
     THEN /\ lastCheck' = [key |-> k, decision |-> decisionCache[k], hit |-> TRUE,
                           stale |-> k \in staleKeys]
          /\ UNCHANGED <<decisionCache, staleKeys>>
     ELSE LET decision == IF k \in remoteRoles THEN "allow" ELSE "deny" IN
          /\ decisionCache' = [decisionCache EXCEPT ![k] = decision]
          /\ staleKeys' = staleKeys \ {k}
          /\ lastCheck' = [key |-> k, decision |-> decision, hit |-> FALSE, stale |-> FALSE]
  /\ UNCHANGED <<remoteRoles, httpWrites, lastWrite, httpReads, lastRead>>

\* A write operation that issues the request a second time when it is rejected.
WriteRetrying(op, affected, rolesAfter, returns) ==
  /\ httpWrites < MaxWrites
  /\ \E ok \in BOOLEAN :
       IF ok
       THEN /\ httpWrites' = httpWrites + 1
            /\ remoteRoles' = rolesAfter
            /\ lastWrite' = [op |-> op, outcome |-> returns, affected |-> affected,
                             requests |-> 1, rejected |-> "none", thrown |-> "none",
                             logged |-> FALSE]
            /\ staleKeys' = staleKeys \cup {k \in affected : decisionCache[k] # "none"}
       ELSE \E e \in HttpErrors :
            /\ httpWrites' = httpWrites + 2
            /\ lastWrite' = [op |-> op, outcome |-> "error", affected |-> {},
                             requests |-> 2, rejected |-> e, thrown |-> e,
                             logged |-> TRUE]
            /\ UNCHANGED <<remoteRoles, staleKeys>>
  /\ UNCHANGED <<decisionCache, lastCheck, httpReads, lastRead>>

\* One write operation of MutationsClient: a single request through the axios
\* client; then() returns the response data or status, catch() logs at error
\* level and rethrows the error it caught.
\* The client holds the config, the logger and the axios instance only: the
\* decision cache is not touched.
Write(op, affected, rolesAfter, returns) ==
  /\ httpWrites < MaxWrites
  /\ httpWrites' = httpWrites + 1
  /\ \E ok \in BOOLEAN :
       IF ok
       THEN /\ remoteRoles' = rolesAfter
            /\ lastWrite' = [op |-> op, outcome |-> returns, affected |-> affected,
                             requests |-> httpWrites' - httpWrites,
                             rejected |-> "none", thrown |-> "none", logged |-> FALSE]
            /\ staleKeys' = staleKeys \cup {k \in affected : decisionCache[k] # "none"}
       ELSE \E e \in HttpErrors :
            /\ lastWrite' = [op |-> op, outcome |-> "error", affected |-> {},
                             requests |-> httpWrites' - httpWrites,
                             rejected |-> e, thrown |-> e, logged |-> TRUE]
            /\ UNCHANGED <<remoteRoles, staleKeys>>
  /\ UNCHANGED <<decisionCache, lastCheck, httpReads, lastRead>>

syncUser(u) == Write("syncUser", KeysOfUser(u), remoteRoles, "data")

deleteUser(u) == Write("deleteUser", KeysOfUser(u), remoteRoles \ KeysOfUser(u), "status")

createTenant(t) == Write("createTenant", KeysOfTenant(t), remoteRoles, "data")

updateTenant(t) == Write("updateTenant", KeysOfTenant(t), remoteRoles, "data")

deleteTenant(t) == Write("deleteTenant", KeysOfTenant(t), remoteRoles \ KeysOfTenant(t), "status")

assignRole(u, t) == Write("assignRole", {<<u, t>>}, remoteRoles \cup {<<u, t>>}, "data")

unassignRole(u, t) == Write("unassignRole", {<<u, t>>}, remoteRoles \ {<<u, t>>}, "data")

\* One read operation of MutationsClient: a single GET; then() returns the
\* response data, catch() logs at error level and rethrows the error it caught.
Read(op) ==
  /\ httpReads < MaxReads
  /\ httpReads' = httpReads + 1
  /\ \E ok \in BOOLEAN :
       IF ok
       THEN lastRead' = [op |-> op, outcome |-> "data",
                         requests |-> httpReads' - httpReads,
                         rejected |-> "none", thrown |-> "none", logged |-> FALSE]
       ELSE \E e \in HttpErrors :
            lastRead' = [op |-> op, outcome |-> "error",
                         requests |-> httpReads' - httpReads,
                         rejected |-> e, thrown |-> e, logged |-> TRUE]
  /\ UNCHANGED cloudVars

getUser(u) == Read("getUser")

getRole == Read("getRole")

getTenant(t) == Read("getTenant")

\* tenantKey is optional: with it the url gets a tenant filter, still one GET.
getAssignedRoles(u, tenantGiven) == Read("getAssignedRoles")

ReadOps == {"getUser", "getRole", "getTenant", "getAssignedRoles"}
WriteOps == {"syncUser", "deleteUser", "createTenant", "updateTenant", "deleteTenant",
             "assignRole", "unassignRole"}
CloudOps == ReadOps \cup WriteOps

\* The method of the client a proxy entry is bound to, with some arguments.
Invoke(op) ==
  CASE op = "getUser" -> \E u \in Users : getUser(u)
    [] op = "getRole" -> getRole
    [] op = "getTenant" -> \E t \in Tenants : getTenant(t)
    [] op = "getAssignedRoles" -> \E u \in Users, g \in BOOLEAN : getAssignedRoles(u, g)
    [] op = "syncUser" -> \E u \in Users : syncUser(u)
    [] op = "deleteUser" -> \E u \in Users : deleteUser(u)
    [] op = "createTenant" -> \E t \in Tenants : createTenant(t)
    [] op = "updateTenant" -> \E t \in Tenants : updateTenant(t)
    [] op = "deleteTenant" -> \E t \in Tenants : deleteTenant(t)
    [] op = "assignRole" -> \E u \in Users, t \in Tenants : assignRole(u, t)
    [] op = "unassignRole" -> \E u \in Users, t \in Tenants : unassignRole(u, t)

\* The object literal read() hands to its callback.
readProxyWithSync == {"getUser", "getRole", "getTenant", "getAssignedRoles", "syncUser"}

readProxy == {"getUser", "getRole", "getTenant", "getAssignedRoles"}

\* The object literal save() hands to its callback.
writeProxy == {"syncUser", "deleteUser", "createTenant", "updateTenant", "deleteTenant",
               "assignRole", "unassignRole"}

\* return await callback(proxy): the callback calls api[op](...). A method the
\* proxy lacks is undefined and calling it throws a TypeError before any
\* request; otherwise the callback awaits the operation, a rejection propagates,
\* and on success the callback returns the result or throws an error of its own.
\* read/save return or throw whatever the callback did.
Proxied(via, proxy, op, callbackThrows) ==
  IF op \in proxy
  THEN /\ Invoke(op)
       /\ LET res == IF op \in ReadOps THEN lastRead' ELSE lastWrite'
              callback == IF res.outcome = "error" THEN res.thrown
                          ELSE IF callbackThrows THEN "callbackError"
                          ELSE res.outcome
          IN lastProxy' = [via |-> via, op |-> op, callback |-> callback,
                           returned |-> callback,
                           reads |-> httpReads' - httpReads,
                           writes |-> httpWrites' - httpWrites]
  ELSE /\ lastProxy' = [via |-> via, op |-> op, callback |-> "TypeError",
                        returned |-> "TypeError", reads |-> 0, writes |-> 0]
       /\ UNCHANGED <<cloudVars, httpReads, lastRead>>

read == \E op \in CloudOps, callbackThrows \in BOOLEAN : Proxied("read", readProxy, op, callbackThrows)

save == \E op \in CloudOps, callbackThrows \in BOOLEAN : Proxied("save", writeProxy, op, callbackThrows)

\* ============================================ BasePermitApi.handleApiError
MaxHandled == 3

\* Errors handed to handleApiError: axios errors carry the request and, when
\* the server answered, the response; anything else is an unexpected error.
ApiRequests == {"GET /v2/api-key/scope", "POST /v2/facts/users", "DELETE /v2/facts/users/u1"}
ApiResponses == {"undefined", "401", "404", "500"}
AxiosErrors == [isAxiosError : {TRUE}, name : {"AxiosError"},
                request : ApiRequests, response : ApiResponses]
OtherErrors == [isAxiosError : {FALSE}, name : {"TypeError", "RangeError", "SyntaxError"},
                request : {"undefined"}, response : {"undefined"}]
ApiErrors == AxiosErrors \cup OtherErrors

VARIABLES
  lastHandled,   \* the latest handleApiError call: its argument and what it threw
  apiErrorLog    \* messages handleApiError wrote with logger.error

apiVars == <<lastHandled, apiErrorLog>>

NoError == [isAxiosError |-> FALSE, name |-> "none", request |-> "undefined",
            response |-> "undefined"]
NoHandled == [called |-> FALSE, input |-> NoError, returned |-> FALSE, logged |-> FALSE,
              thrown |-> [class |-> "none", message |-> "none", originalError |-> NoError]]

ApiInit ==
  /\ lastHandled = NoHandled
  /\ apiErrorLog = <<>>

\* `Got error status code: ${err.response?.status}`
StatusMessage(err) == <<"Got error status code: ", err.response>>

\* PermitApiError: the message, the wrapped error, and the getters over it.
PermitApiError(message, originalError) ==
  [class |-> "PermitApiError", message |-> message, originalError |-> originalError]

PermitApiErrorRequest(e) == e.originalError.request

PermitApiErrorResponse(e) == e.originalError.response

\* throw err: the very error that came in.
Rethrown(err) == [class |-> "rethrown", message |-> "none", originalError |-> err]

\* What handleApiError throws.
ThrownByHandleApiErrorAlwaysWrapping(err) == PermitApiError(StatusMessage(err), err)

ThrownByHandleApiError(err) ==
  IF err.isAxiosError
  THEN PermitApiError(StatusMessage(err), err)
  ELSE Rethrown(err)

\* handleApiError(err): never: both branches end in a throw; only the axios
\* branch logs.
handleApiError ==
  /\ Len(apiErrorLog) < MaxHandled
  /\ \E err \in ApiErrors :
       /\ apiErrorLog' = IF err.isAxiosError
                         THEN Append(apiErrorLog, StatusMessage(err))
                         ELSE apiErrorLog
       /\ lastHandled' = [called |-> TRUE, input |-> err, returned |-> FALSE,
                          logged |-> Len(apiErrorLog') > Len(apiErrorLog),
                          thrown |-> ThrownByHandleApiError(err)]

\* ========================================================== specifications
vars == <<ctxVars, sdkVars, cloudVars, proxyVars, apiVars>>

Init == CtxInit /\ SdkInit /\ CloudInit /\ ApiInit

Next ==
  /\ \E p \in Callers :
       \/ ensureAccessLevel(p)
       \/ ensureContext(p)
       \/ ScopeLookupReturns(p)
       \/ ScopeLookupRejects(p)
  /\ UNCHANGED <<sdkVars, cloudVars, proxyVars, apiVars>>

Spec == Init /\ [][Next]_vars

\* Guard calls that do not overlap: a call starts only when none is in flight.
NoneInFlight == \A q \in Callers : pc[q] = "idle"

NextSeq ==
  /\ \E p \in Callers :
       \/ NoneInFlight /\ ensureAccessLevel(p)
       \/ NoneInFlight /\ ensureContext(p)
       \/ ScopeLookupReturns(p)
       \/ ScopeLookupRejects(p)
  /\ UNCHANGED <<sdkVars, cloudVars, proxyVars, apiVars>>

SpecSeq == Init /\ [][NextSeq]_vars

\* The key's scope plays no part in the specifications below.
FullScope == [organization_id |-> TRUE, project_id |-> TRUE, environment_id |-> TRUE]

InitSdk == Init /\ apiKeyScope = FullScope

NextSdk ==
  /\ \/ \E c \in Clients : init(c)
     \/ \E c \in Clients : on(c)
     \/ \E c \in Clients : once(c)
     \/ \E c \in Clients : instrument(c)
     \/ HttpRequest
  /\ UNCHANGED <<ctxVars, cloudVars, proxyVars, apiVars>>

SpecSdk == InitSdk /\ [][NextSdk]_vars

\* The event loop runs every enabled step of the client.
SpecSdkLive == SpecSdk /\ WF_vars(NextSdk)

NextCloud ==
  /\ \/ \E k \in Keys : check(k)
     \/ \E u \in Users : syncUser(u)
     \/ \E u \in Users : deleteUser(u)
     \/ \E t \in Tenants : createTenant(t)
     \/ \E t \in Tenants : updateTenant(t)
     \/ \E t \in Tenants : deleteTenant(t)
     \/ \E u \in Users, t \in Tenants : assignRole(u, t)
     \/ \E u \in Users, t \in Tenants : unassignRole(u, t)
  /\ UNCHANGED <<ctxVars, sdkVars, lastProxy, apiVars>>

SpecCloud == InitSdk /\ [][NextCloud]_vars

\* The client's cloud api: read(callback) and save(callback).
NextProxy ==
  /\ \/ read
     \/ save
  /\ UNCHANGED <<ctxVars, sdkVars, apiVars>>

SpecProxy == InitSdk /\ [][NextProxy]_vars

\* Calls of handleApiError from the catch blocks of the api classes.
NextApiError ==
  /\ handleApiError
  /\ UNCHANGED <<ctxVars, sdkVars, cloudVars, proxyVars>>

SpecApiError == InitSdk /\ [][NextApiError]_vars

\* ================================================== properties of the guards
InFlight == {p \in Callers : pc[p] = "awaitScope"}

\* Rank of an access level in the order ORGANIZATION < PROJECT < ENVIRONMENT.
KeyRank(level) ==
  CASE level = KEY_ORGANIZATION -> 1
    [] level = KEY_PROJECT -> 2
    [] level = KEY_ENVIRONMENT -> 3
    [] OTHER -> 0

\* The guard reached its check with the permitted level resolved.
AccessChecked ==
  /\ ret.guard = "access"
  /\ ret.lookup # "failed"
  /\ ret.permittedAccessLevel # KEY_WAIT_FOR_INIT

\* C1 (as claimed): with the permitted level resolved, ensureAccessLevel(required)
\* fails with a ContextError exactly when the permitted level is coarser-grained
\* than the required level (ORGANIZATION < PROJECT < ENVIRONMENT).
C1_FailsWhenPermittedCoarser ==
  AccessChecked =>
    (ret.result = "ContextError" <=> KeyRank(ret.permittedAccessLevel) < KeyRank(ret.required))

\* C1 (amended): with the permitted level resolved, ensureAccessLevel(required)
\* fails with a ContextError exactly when the required level is coarser-grained
\* than the permitted level, i.e. the key is scoped more narrowly than the endpoint.
C1_FailsWhenRequiredCoarser ==
  AccessChecked =>
    (ret.result = "ContextError" <=> KeyRank(ret.required) < KeyRank(ret.permittedAccessLevel))

\* C1 witness: ensureAccessLevel(ORGANIZATION) has thrown for an ENVIRONMENT key.
C1_Witness ==
  /\ AccessChecked
  /\ ret.required = KEY_ORGANIZATION
  /\ ret.permittedAccessLevel = KEY_ENVIRONMENT
  /\ ret.result = "ContextError"

\* C2: while no scope lookup has completed yet, the guard calls made so far have
\* issued exactly one getApiKeyScope request between them (single flight).
C2_SingleScopeLookup ==
  (calls > 0 /\ scopeCalls = Cardinality(InFlight)) => scopeCalls = 1

\* C3: ensureContext(required) fails with a ContextError exactly when the context
\* level is less specific than required or still WAIT_FOR_INIT.
C3_ContextFailsExactlyWhenLessSpecific ==
  ret.guard = "context" =>
    (ret.result = "ContextError" <=>
       (ret.contextLevel < ret.required \/ ret.contextLevel = WAIT_FOR_INIT))

\* C4: a failed scope lookup makes its guard fail with a ContextError and stores
\* nothing: both levels are left as they were, they are WAIT_FOR_INIT as long as
\* no lookup has succeeded, and a guard call made at WAIT_FOR_INIT issues a new
\* getApiKeyScope request.
C4_FailedLookupNotCached ==
  /\ [](scopeSuccess = 0 =>
          contextLevel = WAIT_FOR_INIT /\ permittedAccessLevel = KEY_WAIT_FOR_INIT)
  /\ [][\A p \in Callers :
          /\ (pc[p] = "awaitScope" /\ pc'[p] = "idle" /\ ret'.lookup = "failed") =>
               /\ ret'.caller = p
               /\ ret'.result = "ContextError"
               /\ contextLevel' = contextLevel
               /\ permittedAccessLevel' = permittedAccessLevel
          /\ (calls' = calls + 1 /\ contextLevel = WAIT_FOR_INIT) =>
               scopeCalls' = scopeCalls + 1]_vars

\* C4 witness: a lookup has failed, nothing is resolved, and the following guard
\* call is waiting for its own, second lookup.
C4_Witness ==
  /\ ret.lookup = "failed"
  /\ ret.result = "ContextError"
  /\ contextLevel = WAIT_FOR_INIT
  /\ permittedAccessLevel = KEY_WAIT_FOR_INIT
  /\ scopeCalls = 2
  /\ Cardinality(InFlight) = 1

\* C5: over non-overlapping guard calls at most one scope lookup succeeds, and no
\* getApiKeyScope request is issued once a lookup has succeeded.
C5_AtMostOneSuccessfulLookup ==
  /\ scopeSuccess <= 1
  /\ lookupsAfterSuccess = 0

\* C5 witness: after the successful lookup a later guard call failed its check
\* without any further request.
C5_Witness ==
  /\ scopeSuccess = 1
  /\ scopeCalls = 1
  /\ calls >= 2
  /\ ret.lookup = "none"
  /\ ret.result = "ContextError"

\* C6: the context level starts at WAIT_FOR_INIT, is written at most once, and
\* never becomes less specific, concurrent guard calls included.
C6_ContextLevelWrittenOnce ==
  /\ [](contextWrites = 0 => contextLevel = WAIT_FOR_INIT)
  /\ [](contextWrites <= 1)
  /\ [][contextLevel' >= contextLevel]_vars

\* The level the response's ids stand for.
ExpectedContextLevel(data) ==
  CASE ~data.organization_id -> WAIT_FOR_INIT
    [] data.organization_id /\ ~data.project_id -> ORGANIZATION
    [] data.organization_id /\ data.project_id /\ ~data.environment_id -> PROJECT
    [] data.organization_id /\ data.project_id /\ data.environment_id -> ENVIRONMENT

\* C7: a successful lookup sets the context level from the ids of the response
\* (organization only or organization+environment: ORGANIZATION; organization and
\* project: PROJECT; all three: ENVIRONMENT); without organization_id no level is
\* set and the guard fails with a ContextError.
C7_ContextLevelFromResponse ==
  /\ scopeSuccess > 0 => contextLevel = ExpectedContextLevel(apiKeyScope)
  /\ ~apiKeyScope.organization_id =>
       /\ contextLevel = WAIT_FOR_INIT
       /\ scopeSuccess = 0
       /\ ret.guard # "none" => ret.result = "ContextError" /\ ret.lookup = "failed"

\* C7 witness: organization_id and environment_id without project_id resolved to
\* ORGANIZATION.
C7_Witness ==
  /\ apiKeyScope = [organization_id |-> TRUE, project_id |-> FALSE, environment_id |-> TRUE]
  /\ scopeSuccess > 0
  /\ contextLevel = ORGANIZATION
  /\ ret.lookup = "ok"

\* ============================================== properties of the SDK client
\* C8: a listener registered with on('ready') or once('ready') on the client
\* returned by init() is eventually invoked.
C8_ReadyListenerEventuallyInvoked ==
  \A c \in Clients : (registered[c] > 0) ~> (listenerCalls[c] > 0)

\* C9: after a successful mutation the cache entries it affects are invalidated:
\* no cached entry predates a successful write on its key, and the enforcer
\* returns no such entry.
C9_CacheInvalidatedAfterWrite ==
  /\ staleKeys = {}
  /\ lastCheck.hit => ~lastCheck.stale

C14_NormalReturnMeansResolved ==
  ret.result = "ok" =>
    /\ ret.contextLevel # WAIT_FOR_INIT
    /\ ret.permittedAccessLevel # KEY_WAIT_FOR_INIT
    /\ contextLevel # WAIT_FOR_INIT
    /\ permittedAccessLevel # KEY_WAIT_FOR_INIT
    /\ ret.guard = "context" => ret.contextLevel >= ret.required

\* C14 witness: a guard that had to resolve the scope first returned normally.
C14_Witness ==
  /\ ret.result = "ok"
  /\ ret.lookup = "ok"
  /\ ret.guard = "context"
  /\ ret.required = PROJECT
  /\ ret.contextLevel = ENVIRONMENT

\* The objects of a client and the state held in them.
ObjectsOf(c) == {components[c][i] : i \in 1..Len(ComponentNames)}

ClientState(c) == <<components[c], listeners[c], registered[c], listenerCalls[c], readyEmits[c]>>

\* C11: two clients created by two calls of init() share no component: each call
\* builds its own seven objects, and a step on one client leaves the components
\* and the state of every other client unchanged.
C11_ClientsShareNoComponent ==
  /\ [](\A c, d \in created : c # d => ObjectsOf(c) \cap ObjectsOf(d) = {})
  /\ [](\A c \in created : Cardinality(ObjectsOf(c)) = Len(ComponentNames))
  /\ [][\A c, d \in Clients :
          (c # d /\ ClientState(c)' # ClientState(c)) => ClientState(d)' = ClientState(d)]_vars

\* C11 witness: two clients exist and a listener was registered on the first one
\* only.
C11_Witness ==
  /\ {1, 2} \subseteq created
  /\ listeners[1] # <<>>
  /\ listeners[2] = <<>>
  /\ registered[2] = 0

\* ===================================== properties of the MutationsClient api
\* What a successful operation returns: the HTTP status for the two deletes, the
\* response data for everything else.
ExpectedReturn(op) == IF op \in {"deleteUser", "deleteTenant"} THEN "status" ELSE "data"

\* One finished call of a read or write operation.
OneRequestNoRetry(call) ==
  call.op # "none" =>
    /\ call.requests = 1
    /\ call.outcome # "error" =>
         call.outcome = ExpectedReturn(call.op) /\ call.thrown = "none" /\ ~call.logged
    /\ call.outcome = "error" =>
         call.rejected \in HttpErrors /\ call.thrown = call.rejected /\ call.logged

\* C12: every read or write operation issues exactly one request per call and
\* never retries; on success it returns the response data (the status for
\* deleteUser and deleteTenant), on failure it logs at error level and rethrows
\* the error it caught.
C12_OneRequestPerCall ==
  /\ OneRequestNoRetry(lastWrite)
  /\ OneRequestNoRetry(lastRead)

\* C12 witness: a delete returned the status after a read had failed and
\* rethrown its error.
C12_Witness ==
  /\ lastWrite.op = "deleteUser"
  /\ lastWrite.outcome = "status"
  /\ lastRead.op = "getAssignedRoles"
  /\ lastRead.outcome = "error"
  /\ lastRead.thrown = "timeout"
  /\ httpReads = 1
  /\ httpWrites = 1

\* C13: the callback of read() gets exactly the four read operations and no
\* mutation, the callback of save() exactly the seven write operations; no write
\* request is issued through read(); read() and save() return the callback's
\* result and propagate its failure unchanged.
C13_ProxiesExposeOnlyTheirOperations ==
  /\ lastProxy.via = "read" =>
       /\ lastProxy.writes = 0
       /\ lastProxy.reads = (IF lastProxy.op \in
                                {"getUser", "getRole", "getTenant", "getAssignedRoles"}
                             THEN 1 ELSE 0)
       /\ lastProxy.reads = 0 => lastProxy.callback = "TypeError"
  /\ lastProxy.via = "save" =>
       /\ lastProxy.reads = 0
       /\ lastProxy.writes = (IF lastProxy.op \in
                                 {"syncUser", "deleteUser", "createTenant", "updateTenant",
                                  "deleteTenant", "assignRole", "unassignRole"}
                              THEN 1 ELSE 0)
       /\ lastProxy.writes = 0 => lastProxy.callback = "TypeError"
  /\ lastProxy.returned = lastProxy.callback

\* C13 witness: after a read went through read(), a callback that reached for
\* assignRole on the read proxy failed without any request.
C13_Witness ==
  /\ lastProxy.via = "read"
  /\ lastProxy.op = "assignRole"
  /\ lastProxy.returned = "TypeError"
  /\ lastRead.op = "getUser"
  /\ lastRead.outcome = "data"
  /\ httpWrites = 0
  /\ remoteRoles = {}

\* ============================================== properties of handleApiError
\* C15: handleApiError never returns normally: for an axios error it logs at
\* error level and throws a PermitApiError that wraps the original error and
\* exposes its request and response; any other error is rethrown as it is,
\* neither wrapped nor logged.
C15_HandleApiErrorAlwaysThrows ==
  lastHandled.called =>
    /\ ~lastHandled.returned
    /\ lastHandled.thrown.originalError = lastHandled.input
    /\ lastHandled.input.isAxiosError =>
         /\ lastHandled.thrown.class = "PermitApiError"
         /\ PermitApiErrorRequest(lastHandled.thrown) = lastHandled.input.request
         /\ PermitApiErrorResponse(lastHandled.thrown) = lastHandled.input.response
         /\ lastHandled.logged
         /\ apiErrorLog # <<>>
    /\ ~lastHandled.input.isAxiosError =>
         /\ lastHandled.thrown.class = "rethrown"
         /\ lastHandled.thrown.message = "none"
         /\ ~lastHandled.logged

\* C15 witness: a TypeError was rethrown silently after an axios error with a
\* 404 response had been logged.
C15_Witness ==
  /\ lastHandled.called
  /\ lastHandled.input.name = "TypeError"
  /\ lastHandled.thrown.class = "rethrown"
  /\ apiErrorLog = <<StatusMessage([isAxiosError |-> TRUE, name |-> "AxiosError",
                                    request |-> "POST /v2/facts/users", response |-> "404"])>>

====
